---- MODULE Spec2Model ----
(***************************************************************************)
(* Model of bin/run_behalf.py: the distributed self-starting leapfrog      *)
(* driver of the behalf N-body code.  "size" MPI processes (ranks          *)
(* 0..size-1) run the same script; rank 0 is the aggregator.               *)
(*                                                                         *)
(* Arrays of shape (n, 3) are flat sequences of 3*n integers in C order    *)
(* (row j, column c at index 3*j + c + 1).  Inputs are drawn so that all   *)
(* the arithmetic of the script is exact on integers (dt is even, the      *)
(* total mass is divisible by the particle count).                         *)
(*                                                                         *)
(* Collectives follow the MPI rules: the root of a broadcast or a scatter  *)
(* may return as soon as its data is on the way, a receiver blocks until   *)
(* its data has arrived, a sender of a gather may return once its slice is *)
(* on the way and the root of a gather blocks until every slice is in.     *)
(* Messages between two ranks are delivered in the order they were sent.   *)
(***************************************************************************)
EXTENDS Integers, Sequences, FiniteSets, TLC

\* ---- bounds of the model ------------------------------------------------
MaxN == 3
MaxW == 3
MaxSteps == 3
MaxSave == 2
\* the runs explored have at most MaxWork rank-steps (size * N_steps)
MaxWork == 6

\* ---- inputs that are not bounds -----------------------------------------
DtSet == {2}
SeedSet == {1}
TotalMassSet == {12}
TimeSet == {7}

\* ---- values -------------------------------------------------------------
\* Python's None for an array variable: a one-element sequence, which no
\* flat (n, 3) array can be.
None == <<0>>
\* An entry of np.empty() that has not been written yet.
Uninit == 0 - 999999

VARIABLES
    N_parts, size, N_steps, save_every, dt, seed, clobber, M_total,
    dir_exists,     \* results_dir exists on disk
    dir_made,       \* os.makedirs(results_dir) has been called and returned
    pc,             \* position of every rank in the script
    part_ids_per_process, N_per_process, displacements, N_this,
    pos_init, vel_init, masses,
    tree, accels, pos_full, vel_full, pos, vel, i, t_start,
    down,           \* messages in flight from rank 0 to each rank
    up,             \* messages in flight from each rank to rank 0
    got,            \* ranks whose slice the running Gatherv has received
    coll,           \* the collectives every rank has called, in order
    saved           \* the calls of utils.save_results, in order

params == <<N_parts, size, N_steps, save_every, dt, seed, clobber, M_total>>
partv == <<part_ids_per_process, N_per_process, displacements, N_this>>
icv == <<pos_init, vel_init, masses>>
fullv == <<pos_full, vel_full>>
slicev == <<pos, vel>>
chanv == <<down, up, got>>
vars == <<params, dir_exists, dir_made, pc, partv, icv, tree, accels, fullv,
          slicev, i, t_start, chanv, coll, saved>>

Ranks == 0 .. (size - 1)

\* ---- helpers ------------------------------------------------------------
RECURSIVE SumSeq(_)
SumSeq(s) == IF s = <<>> THEN 0 ELSE s[1] + SumSeq(Tail(s))

Sgn(x) == IF x > 0 THEN 1 ELSE IF x < 0 THEN 0 - 1 ELSE 0

\* np.arange(n) as a sequence
arange(n) == [k \in 1 .. n |-> k - 1]

\* a buffer of n numbers instead of n rows of 3
empty_flat(n) == [k \in 1 .. n |-> Uninit]

\* np.empty((n, 3))
empty(n) == [k \in 1 .. 3 * n |-> Uninit]

\* ---- partition (lines 66-75) --------------------------------------------
\* np.array_split(np.arange(N), W): the first N % W chunks have
\* N // W + 1 elements, the others N // W.
ChunkLen(N, W, p) == (N \div W) + (IF p < (N % W) THEN 1 ELSE 0)
ChunkStart(N, W, p) == p * (N \div W) + (IF p < (N % W) THEN p ELSE N % W)

\* a split that gives the whole remainder to the last chunk
array_split_rem_last(N, W) ==
    [q \in 1 .. W |->
        [k \in 1 .. (IF q = W THEN N - (W - 1) * (N \div W) ELSE N \div W) |->
            (q - 1) * (N \div W) + k - 1]]

array_split(N, W) ==
    [q \in 1 .. W |->
        [k \in 1 .. ChunkLen(N, W, q - 1) |-> ChunkStart(N, W, q - 1) + k - 1]]

\* line 70: N_per_process = [len(part_ids_per_process[p]) for p in range(size)]
CountPerProcess(ids) == [q \in 1 .. Len(ids) |-> Len(ids[q])]

\* np.cumsum
cumsum(s) == [k \in 1 .. Len(s) |-> SumSeq(SubSeq(s, 1, k))]

\* displacements counted in particles instead of doubles
Displacements_rows(n) ==
    LET c == <<0>> \o cumsum(n)
    IN  SubSeq(c, 1, Len(c) - 1)

\* line 73: np.insert(np.cumsum(N_per_process * 3), 0, 0)[0:-1]
Displacements(n) ==
    LET c == <<0>> \o cumsum([q \in 1 .. Len(n) |-> n[q] * 3])
    IN  SubSeq(c, 1, Len(c) - 1)

\* ---- MPI data movement --------------------------------------------------
\* The part of sendbuf that Scatterv sends to rank r.
ScatterSlice(sendbuf, counts, displs, r) ==
    [k \in 1 .. counts[r + 1] |-> sendbuf[displs[r + 1] + k]]

\* A receive of data into recvbuf (the leading entries are overwritten).
Recv(recvbuf, data) ==
    [k \in 1 .. Len(recvbuf) |-> IF k <= Len(data) THEN data[k] ELSE recvbuf[k]]

\* The placement by Gatherv of the data of rank r into recvbuf.
GatherPlace(recvbuf, data, counts, displs, r) ==
    [k \in 1 .. Len(recvbuf) |->
        IF k > displs[r + 1] /\ k <= displs[r + 1] + counts[r + 1]
            THEN data[k - displs[r + 1]]
            ELSE recvbuf[k]]

Times3(n) == [q \in 1 .. Len(n) |-> n[q] * 3]


\* ---- collaborators of the script (behalf package) -----------------------
\* initialConditions.plummer(N, a, m, G, seed): some N x 3 positions and
\* velocities fixed by the seed.  Every entry is a multiple of N, so that
\* the column means taken by the script are exact.
plummer(N, sd) ==
    << [k \in 1 .. 3 * N |-> N * ((sd * (((k - 1) \div 3) + 1) + ((k - 1) % 3)) % 4)],
       [k \in 1 .. 3 * N |-> N * ((sd + ((k - 1) \div 3) * (((k - 1) % 3) + 1)) % 3)] >>

\* utils.construct_tree(pos, masses): the tree summarises exactly the
\* positions and masses it was built from.
construct_tree(p, m) == [pos |-> p, masses |-> m]
NoTree == [pos |-> None, masses |-> None]

\* utils.compute_accel(tree, ids, theta, G, eps): one row per particle id,
\* a bounded pull of every particle of the tree on that particle.
compute_accel(t, ids) ==
    [k \in 1 .. 3 * Len(ids) |->
        LET j == ids[((k - 1) \div 3) + 1]
            c == (k - 1) % 3
        IN  SumSeq([p \in 1 .. Len(t.masses) |->
                      t.masses[p] * Sgn(t.pos[3 * (p - 1) + c + 1] - t.pos[3 * j + c + 1])])]

\* integrator.cuda_timestep(pos, vel, accel, dt) -> (new_pos, new_vel):
\* new_velocity = velocity + acceleration * dt,
\* new_position = position + new_velocity * dt.
cuda_timestep(p, v, a, h) ==
    LET nv == [k \in 1 .. Len(v) |-> v[k] + a[k] * h]
    IN  << [k \in 1 .. Len(p) |-> p[k] + nv[k] * h], nv >>

\* ---- pieces of the script -----------------------------------------------
\* lines 88-89: arr -= np.mean(arr, axis=0)
ColMean(arr, N, c) == SumSeq([j \in 1 .. N |-> arr[3 * (j - 1) + c + 1]]) \div N
Centre(arr, N) == [k \in 1 .. Len(arr) |-> arr[k] - ColMean(arr, N, (k - 1) % 3)]

\* a self-start that kicks by the full step
HalfDt_full(h) == h

\* line 99: dt/2.
HalfDt(h) == h \div 2

\* a test that forgets the final step
SaveDue_no_final(step, every, nsteps) == (step % every) = 0

\* line 149: the steps whose results are saved
SaveDue(step, every, nsteps) == ((step % every) = 0) \/ (step = nsteps - 1)

\* a save that files the arrays under the index of the step to come
SaveCall_next(r) ==
    [file |-> i[r] + 1, pos |-> pos_full[r], vel |-> vel_full[r], t_start |-> t_start,
     i |-> i[r] + 1, N_steps |-> N_steps, size |-> size, rank |-> r]

\* line 150: the arguments of utils.save_results
SaveCall(r) ==
    [file |-> i[r], pos |-> pos_full[r], vel |-> vel_full[r], t_start |-> t_start,
     i |-> i[r], N_steps |-> N_steps, size |-> size, rank |-> r]

\* a Gatherv that returns on rank 0 as soon as one slice is in
GatherComplete_first(g) == g # {}

\* lines 138-141: Gatherv returns on rank 0 once the slice of every rank is in
GatherComplete(g) == g = Ranks

\* a loop that runs once more
InRange_incl(k, n) == k <= n

\* line 112: for i in range(N_steps)
InRange(k, n) == k < n

Msg(o, d) == [op |-> o, data |-> d]
Call(o, r) == [op |-> o, root |-> 0, step |-> i[r]]
Logged(r, o) == [coll EXCEPT ![r] = Append(coll[r], Call(o, r))]
Goto(r, l) == [pc EXCEPT ![r] = l]
\* rank 0 puts one message on the way to every other rank
SendAll(d, o) == [q \in Ranks |-> IF q = 0 THEN down[q] ELSE Append(down[q], Msg(o, d[q]))]

\* ---- initial state ------------------------------------------------------
Init ==
    /\ N_parts \in 0 .. MaxN
    /\ size \in 1 .. MaxW
    /\ N_steps \in {n \in 0 .. MaxSteps : size * n <= MaxWork}
    /\ save_every \in 0 .. MaxSave
    /\ dt \in DtSet
    /\ seed \in SeedSet
    /\ M_total \in TotalMassSet
    /\ dir_exists \in BOOLEAN
    \* line 79 reads clobber only when the directory exists
    /\ clobber \in (IF dir_exists THEN BOOLEAN ELSE {FALSE})
    /\ dir_made = FALSE
    /\ pc = [r \in Ranks |-> "start"]
    /\ part_ids_per_process = [r \in Ranks |-> <<>>]
    /\ N_per_process = [r \in Ranks |-> <<>>]
    /\ displacements = [r \in Ranks |-> <<>>]
    /\ N_this = [r \in Ranks |-> 0]
    /\ pos_init = None
    /\ vel_init = None
    /\ masses = None
    /\ tree = [r \in Ranks |-> NoTree]
    /\ accels = [r \in Ranks |-> None]
    /\ pos_full = [r \in Ranks |-> None]
    /\ vel_full = [r \in Ranks |-> None]
    /\ pos = [r \in Ranks |-> None]
    /\ vel = [r \in Ranks |-> None]
    /\ i = [r \in Ranks |-> 0]
    /\ t_start = 0
    /\ down = [r \in Ranks |-> <<>>]
    /\ up = [r \in Ranks |-> <<>>]
    /\ got = {}
    /\ coll = [r \in Ranks |-> <<>>]
    /\ saved = <<>>

\* ---- start-up (every rank) ----------------------------------------------
\* lines 53-75, and lines 103-104 on the ranks other than 0.
\* M_part = M_total / N_parts raises ZeroDivisionError when N_parts is 0;
\* otherwise every rank computes the partition for itself.
Startup(r) ==
    /\ pc[r] = "start"
    /\ IF N_parts = 0
         THEN /\ pc' = Goto(r, "crashed")
              /\ UNCHANGED <<partv, fullv>>
         ELSE /\ part_ids_per_process' =
                    [part_ids_per_process EXCEPT ![r] = array_split(N_parts, size)]
              /\ N_per_process' =
                    [N_per_process EXCEPT ![r] = CountPerProcess(part_ids_per_process'[r])]
              /\ displacements' =
                    [displacements EXCEPT ![r] = Displacements(N_per_process'[r])]
              /\ N_this' = [N_this EXCEPT ![r] = N_per_process'[r][r + 1]]
              /\ IF r = 0
                   THEN /\ pc' = Goto(r, "dircheck")
                        /\ UNCHANGED fullv
                   ELSE /\ pos_full' = [pos_full EXCEPT ![r] = None]
                        /\ vel_full' = [vel_full EXCEPT ![r] = None]
                        /\ pc' = Goto(r, "loop")
    /\ UNCHANGED <<params, dir_exists, dir_made, icv, tree, accels, slicev,
                   i, t_start, chanv, coll, saved>>

\* lines 77-82 (rank 0).  The assert fails when the directory exists and
\* clobber is not set; os.makedirs raises FileExistsError when the directory
\* exists.
DirCheck ==
    /\ pc[0] = "dircheck"
    /\ IF dir_exists
         THEN /\ pc' = Goto(0, "crashed")
              /\ UNCHANGED <<dir_exists, dir_made>>
         ELSE /\ dir_exists' = TRUE
              /\ dir_made' = TRUE
              /\ pc' = Goto(0, "ic")
    /\ UNCHANGED <<params, partv, icv, tree, accels, fullv, slicev,
                   i, t_start, chanv, coll, saved>>

\* lines 85-90 (rank 0)
InitialConditions ==
    /\ pc[0] = "ic"
    /\ LET ic == plummer(N_parts, seed)
       IN  /\ pos_init' = Centre(ic[1], N_parts)
           /\ vel_init' = Centre(ic[2], N_parts)
    /\ masses' = [k \in 1 .. N_parts |-> M_total \div N_parts]
    /\ pc' = Goto(0, "selfstart")
    /\ UNCHANGED <<params, dir_exists, dir_made, partv, tree, accels, fullv, slicev,
                   i, t_start, chanv, coll, saved>>

\* lines 92-101 (rank 0): the self-start of the leapfrog
SelfStart ==
    /\ pc[0] = "selfstart"
    /\ tree' = [tree EXCEPT ![0] = construct_tree(pos_init, masses)]
    /\ accels' = [accels EXCEPT ![0] = compute_accel(tree'[0], arange(N_parts))]
    /\ vel_full' = [vel_full EXCEPT
                      ![0] = cuda_timestep(pos_init, vel_init, accels'[0], HalfDt(dt))[2]]
    /\ pos_full' = [pos_full EXCEPT
                      ![0] = cuda_timestep(pos_init, vel_full'[0], accels'[0], dt)[1]]
    /\ pc' = Goto(0, "clock")
    /\ UNCHANGED <<params, dir_exists, dir_made, partv, icv, slicev,
                   i, t_start, chanv, coll, saved>>

\* lines 107-111 (rank 0): t_start = time()
StartClock ==
    /\ pc[0] = "clock"
    /\ t_start' \in TimeSet
    /\ pc' = Goto(0, "loop")
    /\ UNCHANGED <<params, dir_exists, dir_made, partv, icv, tree, accels, fullv,
                   slicev, i, chanv, coll, saved>>


\* ---- the main integration loop (lines 112-151) --------------------------
\* a loop that keeps the tree of the step before
LoopHead_stale(r) ==
    /\ pc[r] = "loop"
    /\ pc' = Goto(r, IF InRange(i[r], N_steps) THEN "bcast" ELSE "done")
    /\ UNCHANGED <<params, dir_exists, dir_made, partv, icv, tree, accels, fullv,
                   slicev, i, t_start, chanv, coll, saved>>

\* lines 112-117: the loop test, then rank 0 builds the tree and the others
\* set tree = None
LoopHead(r) ==
    /\ pc[r] = "loop"
    /\ IF InRange(i[r], N_steps)
         THEN /\ tree' = [tree EXCEPT
                  ![r] = IF r = 0 THEN construct_tree(pos_full[0], masses) ELSE NoTree]
              /\ pc' = Goto(r, "bcast")
         ELSE /\ pc' = Goto(r, "done")
              /\ UNCHANGED tree
    /\ UNCHANGED <<params, dir_exists, dir_made, partv, icv, accels, fullv,
                   slicev, i, t_start, chanv, coll, saved>>

\* line 119, on rank 0: tree = comm.bcast(tree, root=0)
BcastRoot ==
    /\ pc[0] = "bcast"
    /\ LET d == [q \in Ranks |-> tree[0]] IN down' = SendAll(d, "bcast")
    /\ coll' = Logged(0, "bcast")
    /\ pc' = Goto(0, "scatpos")
    /\ UNCHANGED <<params, dir_exists, dir_made, partv, icv, tree, accels, fullv,
                   slicev, i, t_start, up, got, saved>>

\* line 119, on the other ranks: blocks until the tree has arrived
BcastRecv(r) ==
    /\ r # 0
    /\ pc[r] = "bcast"
    /\ down[r] # <<>>
    /\ tree' = [tree EXCEPT ![r] = Head(down[r]).data]
    /\ down' = [down EXCEPT ![r] = Tail(down[r])]
    /\ coll' = Logged(r, "bcast")
    /\ pc' = Goto(r, "scatpos")
    /\ UNCHANGED <<params, dir_exists, dir_made, partv, icv, accels, fullv,
                   slicev, i, t_start, up, got, saved>>

\* lines 121-124, on rank 0: allocate pos and vel, Scatterv of pos_full
ScatterPosRoot ==
    /\ pc[0] = "scatpos"
    /\ LET d == [q \in Ranks |->
                  ScatterSlice(pos_full[0], Times3(N_per_process[0]), displacements[0], q)]
       IN  /\ down' = SendAll(d, "scatter_pos")
           /\ pos' = [pos EXCEPT ![0] = Recv(empty(N_this[0]), d[0])]
    /\ vel' = [vel EXCEPT ![0] = empty(N_this[0])]
    /\ coll' = Logged(0, "scatter_pos")
    /\ pc' = Goto(0, "scatvel")
    /\ UNCHANGED <<params, dir_exists, dir_made, partv, icv, tree, accels, fullv,
                   i, t_start, up, got, saved>>

\* lines 121-124, on the other ranks: blocks until the slice has arrived
ScatterPosRecv(r) ==
    /\ r # 0
    /\ pc[r] = "scatpos"
    /\ down[r] # <<>>
    /\ pos' = [pos EXCEPT ![r] = Recv(empty(N_this[r]), Head(down[r]).data)]
    /\ vel' = [vel EXCEPT ![r] = empty(N_this[r])]
    /\ down' = [down EXCEPT ![r] = Tail(down[r])]
    /\ coll' = Logged(r, "scatter_pos")
    /\ pc' = Goto(r, "scatvel")
    /\ UNCHANGED <<params, dir_exists, dir_made, partv, icv, tree, accels, fullv,
                   i, t_start, up, got, saved>>

\* lines 125-126, on rank 0: Scatterv of vel_full
ScatterVelRoot ==
    /\ pc[0] = "scatvel"
    /\ LET d == [q \in Ranks |->
                  ScatterSlice(vel_full[0], Times3(N_per_process[0]), displacements[0], q)]
       IN  /\ down' = SendAll(d, "scatter_vel")
           /\ vel' = [vel EXCEPT ![0] = Recv(vel[0], d[0])]
    /\ coll' = Logged(0, "scatter_vel")
    /\ pc' = Goto(0, "compute")
    /\ UNCHANGED <<params, dir_exists, dir_made, partv, icv, tree, accels, fullv,
                   pos, i, t_start, up, got, saved>>

\* lines 125-126, on the other ranks
ScatterVelRecv(r) ==
    /\ r # 0
    /\ pc[r] = "scatvel"
    /\ down[r] # <<>>
    /\ vel' = [vel EXCEPT ![r] = Recv(vel[r], Head(down[r]).data)]
    /\ down' = [down EXCEPT ![r] = Tail(down[r])]
    /\ coll' = Logged(r, "scatter_vel")
    /\ pc' = Goto(r, "compute")
    /\ UNCHANGED <<params, dir_exists, dir_made, partv, icv, tree, accels, fullv,
                   pos, i, t_start, up, got, saved>>

\* lines 127-131: forces on the owned particles, then one full time step
Compute(r) ==
    /\ pc[r] = "compute"
    /\ accels' = [accels EXCEPT
                    ![r] = compute_accel(tree[r], part_ids_per_process[r][r + 1])]
    /\ LET pv == cuda_timestep(pos[r], vel[r], accels'[r], dt)
       IN  /\ pos' = [pos EXCEPT ![r] = pv[1]]
           /\ vel' = [vel EXCEPT ![r] = pv[2]]
    /\ pc' = Goto(r, "gpos")
    /\ UNCHANGED <<params, dir_exists, dir_made, partv, icv, tree, fullv,
                   i, t_start, chanv, coll, saved>>

\* lines 133-139, on rank 0: both full arrays are allocated afresh and the
\* Gatherv of pos starts with the slice of rank 0 itself
GatherPosRoot ==
    /\ pc[0] = "gpos"
    /\ pos_full' = [pos_full EXCEPT
                      ![0] = GatherPlace(empty(N_parts), pos[0],
                                         Times3(N_per_process[0]), displacements[0], 0)]
    /\ vel_full' = [vel_full EXCEPT ![0] = empty(N_parts)]
    /\ got' = {0}
    /\ IF GatherComplete(got')
         THEN /\ pc' = Goto(0, "gvel")
              /\ coll' = Logged(0, "gather_pos")
         ELSE /\ pc' = Goto(0, "gpos_wait")
              /\ UNCHANGED coll
    /\ UNCHANGED <<params, dir_exists, dir_made, partv, icv, tree, accels,
                   slicev, i, t_start, down, up, saved>>

\* line 138, on rank 0: the slice of rank q arrives
GatherPosRecv(q) ==
    /\ pc[0] = "gpos_wait"
    /\ q \notin got
    /\ up[q] # <<>>
    /\ pos_full' = [pos_full EXCEPT
                      ![0] = GatherPlace(pos_full[0], Head(up[q]).data,
                                         Times3(N_per_process[0]), displacements[0], q)]
    /\ up' = [up EXCEPT ![q] = Tail(up[q])]
    /\ got' = got \cup {q}
    /\ IF GatherComplete(got')
         THEN /\ pc' = Goto(0, "gvel")
              /\ coll' = Logged(0, "gather_pos")
         ELSE UNCHANGED <<pc, coll>>
    /\ UNCHANGED <<params, dir_exists, dir_made, partv, icv, tree, accels, vel_full,
                   slicev, i, t_start, down, saved>>

\* lines 133-139, on the other ranks: the slice is sent to rank 0
GatherPosSend(r) ==
    /\ r # 0
    /\ pc[r] = "gpos"
    /\ pos_full' = [pos_full EXCEPT ![r] = None]
    /\ vel_full' = [vel_full EXCEPT ![r] = None]
    /\ up' = [up EXCEPT ![r] = Append(up[r], Msg("gather_pos", pos[r]))]
    /\ coll' = Logged(r, "gather_pos")
    /\ pc' = Goto(r, "gvel")
    /\ UNCHANGED <<params, dir_exists, dir_made, partv, icv, tree, accels,
                   slicev, i, t_start, down, got, saved>>

\* lines 140-141, on rank 0: the Gatherv of vel starts with its own slice
GatherVelRoot ==
    /\ pc[0] = "gvel"
    /\ vel_full' = [vel_full EXCEPT
                      ![0] = GatherPlace(vel_full[0], vel[0],
                                         Times3(N_per_process[0]), displacements[0], 0)]
    /\ got' = {0}
    /\ IF GatherComplete(got')
         THEN /\ pc' = Goto(0, "save")
              /\ coll' = Logged(0, "gather_vel")
         ELSE /\ pc' = Goto(0, "gvel_wait")
              /\ UNCHANGED coll
    /\ UNCHANGED <<params, dir_exists, dir_made, partv, icv, tree, accels, pos_full,
                   slicev, i, t_start, down, up, saved>>

\* line 140, on rank 0: the slice of rank q arrives
GatherVelRecv(q) ==
    /\ pc[0] = "gvel_wait"
    /\ q \notin got
    /\ up[q] # <<>>
    /\ vel_full' = [vel_full EXCEPT
                      ![0] = GatherPlace(vel_full[0], Head(up[q]).data,
                                         Times3(N_per_process[0]), displacements[0], q)]
    /\ up' = [up EXCEPT ![q] = Tail(up[q])]
    /\ got' = got \cup {q}
    /\ IF GatherComplete(got')
         THEN /\ pc' = Goto(0, "save")
              /\ coll' = Logged(0, "gather_vel")
         ELSE UNCHANGED <<pc, coll>>
    /\ UNCHANGED <<params, dir_exists, dir_made, partv, icv, tree, accels, pos_full,
                   slicev, i, t_start, down, saved>>

\* lines 140-143, on the other ranks: the slice is sent and the iteration
\* is over
GatherVelSend(r) ==
    /\ r # 0
    /\ pc[r] = "gvel"
    /\ up' = [up EXCEPT ![r] = Append(up[r], Msg("gather_vel", vel[r]))]
    /\ coll' = Logged(r, "gather_vel")
    /\ i' = [i EXCEPT ![r] = i[r] + 1]
    /\ pc' = Goto(r, "loop")
    /\ UNCHANGED <<params, dir_exists, dir_made, partv, icv, tree, accels, fullv,
                   slicev, t_start, down, got, saved>>

\* lines 143-151 (rank 0).  i % save_every raises ZeroDivisionError when
\* save_every is 0.
Save ==
    /\ pc[0] = "save"
    /\ IF save_every = 0
         THEN /\ pc' = Goto(0, "crashed")
              /\ UNCHANGED <<saved, i>>
         ELSE /\ saved' = IF SaveDue(i[0], save_every, N_steps)
                            THEN Append(saved, SaveCall(0))
                            ELSE saved
              /\ i' = [i EXCEPT ![0] = i[0] + 1]
              /\ pc' = Goto(0, "loop")
    /\ UNCHANGED <<params, dir_exists, dir_made, partv, icv, tree, accels, fullv,
                   slicev, t_start, chanv, coll>>

Next ==
    \/ \E r \in Ranks : Startup(r)
    \/ DirCheck
    \/ InitialConditions
    \/ SelfStart
    \/ StartClock
    \/ \E r \in Ranks : LoopHead(r)
    \/ BcastRoot
    \/ \E r \in Ranks : BcastRecv(r)
    \/ ScatterPosRoot
    \/ \E r \in Ranks : ScatterPosRecv(r)
    \/ ScatterVelRoot
    \/ \E r \in Ranks : ScatterVelRecv(r)
    \/ \E r \in Ranks : Compute(r)
    \/ GatherPosRoot
    \/ \E q \in Ranks : GatherPosRecv(q)
    \/ \E r \in Ranks : GatherPosSend(r)
    \/ GatherVelRoot
    \/ \E q \in Ranks : GatherVelRecv(q)
    \/ \E r \in Ranks : GatherVelSend(r)
    \/ Save

Spec == Init /\ [][Next]_vars

\* Every process keeps running: some rank that can take a step does.
FairSpec == Spec /\ WF_vars(Next)


\* ==== properties ==========================================================
Started(r) == pc[r] \notin {"start", "crashed"} \/ N_per_process[r] # <<>>

RECURSIVE Flatten(_)
Flatten(ss) == IF ss = <<>> THEN <<>> ELSE ss[1] \o Flatten(Tail(ss))

\* The chunks are contiguous ascending ranges that tile [0, N) in rank
\* order, and no two sizes differ by more than one.
PartitionOK(ids, N, W) ==
    /\ Len(ids) = W
    /\ Flatten(ids) = arange(N)
    /\ \A p, q \in 1 .. W : Len(ids[p]) - Len(ids[q]) <= 1

\* C1: for every N >= 0 and W >= 1 the chunks of np.array_split are
\* contiguous ascending ranges whose union is exactly [0, N), pairwise
\* disjoint, with sizes that differ by at most one; every rank holds exactly
\* these chunks and their sizes from its start-up on, and they are never
\* assigned again.
C1Partition ==
    /\ (\A r \in Ranks : pc[r] = "start") =>
          \A n \in 0 .. MaxN, w \in 1 .. MaxW : PartitionOK(array_split(n, w), n, w)
    /\ \A r \in Ranks : Started(r) =>
          /\ PartitionOK(part_ids_per_process[r], N_parts, size)
          /\ N_per_process[r] = [q \in 1 .. size |-> Len(part_ids_per_process[r][q])]
          /\ N_this[r] = Len(part_ids_per_process[r][r + 1])

C1Frozen ==
    \A r \in Ranks : Started(r) =>
        /\ part_ids_per_process'[r] = part_ids_per_process[r]
        /\ N_per_process'[r] = N_per_process[r]
        /\ N_this'[r] = N_this[r]

\* C1: the chunks are always a partition of [0, N) into contiguous ranges
\* of nearly equal size, and no step of a started rank changes them.
C1Theorem == [](C1Partition) /\ [][C1Frozen]_vars

\* A run of 2 ranks over 3 particles has finished with uneven chunks.
C1Witness ==
    /\ N_parts = 3 /\ size = 2
    /\ pc[0] = "done" /\ pc[1] = "done" /\ i[1] = 2
    /\ part_ids_per_process[1] = << <<0, 1>>, <<2>> >>

\* Scatterv of a full array followed by Gatherv of the unmodified slices
\* into a fresh buffer, with the counts and displacements of rank 0.
RECURSIVE GatherAll(_, _, _, _, _)
GatherAll(buf, slices, counts, displs, r) ==
    IF r < 0 THEN buf
    ELSE GatherPlace(GatherAll(buf, slices, counts, displs, r - 1),
                     slices[r + 1], counts, displs, r)

RoundTrip(full, counts, displs) ==
    LET W == Len(counts)
        slices == [q \in 1 .. W |->
                     Recv([k \in 1 .. counts[q] |-> Uninit],
                          ScatterSlice(full, counts, displs, q - 1))]
    IN  GatherAll([k \in 1 .. Len(full) |-> Uninit], slices, counts, displs, W - 1)

Owners(k, counts, displs) ==
    {q \in 1 .. Len(counts) : k > displs[q] /\ k <= displs[q] + counts[q]}

\* C2: with the counts N_per_process*3 and the displacements of start-up,
\* a scatter followed by a gather of the unmodified slices gives back every
\* full array rank 0 ever holds, element for element, and every element goes
\* to exactly one rank.
C2Theorem ==
    Started(0) =>
        LET counts == Times3(N_per_process[0])
            displs == displacements[0]
        IN  /\ \A k \in 1 .. 3 * N_parts : Cardinality(Owners(k, counts, displs)) = 1
            /\ \A full \in {pos_full[0], vel_full[0]} \ {None} :
                  RoundTrip(full, counts, displs) = full

\* Rank 0 holds gathered arrays of a run with fewer particles than ranks.
C2Witness ==
    /\ N_parts = 2 /\ size = 3
    /\ pc[0] = "save" /\ i[0] = 1
    /\ RoundTrip(pos_full[0], Times3(N_per_process[0]), displacements[0]) = pos_full[0]
    /\ pos_full[0] # vel_full[0]


\* ---- the sequential leapfrog, as a reference -----------------------------
\* The full arrays after the self-start and k iterations of kick and drift
\* on all particles at once: the self-start kicks the velocity by dt/2 and
\* moves the position as line 101 does; every iteration builds the tree from
\* the current positions, kicks by dt and drifts by dt.
\* (Concatenation makes TLC evaluate a sequence once, not at every use.)
SeqStart ==
    LET a == compute_accel(construct_tree(pos_init, masses), arange(N_parts)) \o <<>>
        v == [x \in 1 .. 3 * N_parts |-> vel_init[x] + (a[x] * dt) \div 2] \o <<>>
    IN  [pos |-> [x \in 1 .. 3 * N_parts |-> pos_init[x] + (v[x] + a[x] * dt) * dt] \o <<>>,
         vel |-> v, acc |-> a]

SeqStep(s) ==
    LET a == compute_accel(construct_tree(s.pos, masses), arange(N_parts)) \o <<>>
        v == [x \in 1 .. 3 * N_parts |-> s.vel[x] + a[x] * dt] \o <<>>
    IN  [pos |-> [x \in 1 .. 3 * N_parts |-> s.pos[x] + v[x] * dt] \o <<>>,
         vel |-> v, acc |-> a]

\* SeqTraj(k)[j + 1] is the state after j iterations, for j in 0 .. k; its
\* field acc is the acceleration that led to it.
RECURSIVE SeqTraj(_)
SeqTraj(k) ==
    IF k = 0 THEN <<SeqStart>>
    ELSE LET t == SeqTraj(k - 1) IN Append(t, SeqStep(t[k]))

SeqState(k) == SeqTraj(k)[k + 1]

\* The rows of a full array that rank r owns.
OwnRows(full, r) == ScatterSlice(full, Times3(N_per_process[r]), displacements[r], r)

InLog(r, o, k) == \E x \in 1 .. Len(coll[r]) : coll[r][x].op = o /\ coll[r][x].step = k

AfterCompute == {"gpos", "gpos_wait", "gvel", "gvel_wait", "save"}

\* Rank q has finished its force computation and integration of step k.
Computed(q, k) ==
    \/ i[q] > k
    \/ i[q] = k /\ pc[q] \in AfterCompute
    \/ InLog(q, "gather_pos", k)

\* Rank r has issued (rank 0) or received (the others) a scatter of step k.
Scattered(r, k) == InLog(r, "scatter_pos", k) \/ InLog(r, "scatter_vel", k)

\* C3: no scatter of step k+1 is issued or received, and no rank computes
\* step k+1, before every rank has finished its force computation and
\* integration of step k; the slices a rank computes step k+1 from are its
\* rows of the fully gathered arrays of step k.
C3Theorem ==
    \A r \in Ranks :
        /\ \A q \in Ranks, k \in 0 .. MaxSteps :
              (Scattered(r, k + 1) \/ (pc[r] = "compute" /\ i[r] = k + 1))
                  => Computed(q, k)
        /\ pc[r] = "compute" =>
              LET s == SeqState(i[r])
              IN  /\ pos[r] = OwnRows(s.pos, r)
                  /\ vel[r] = OwnRows(s.vel, r)
                  /\ tree[r].pos = s.pos

\* Of three ranks, one computes step 1 while another still waits for the
\* tree of step 1.
C3Witness ==
    /\ size = 3 /\ N_parts = 3
    /\ pc[1] = "compute" /\ i[1] = 1
    /\ pc[2] = "bcast" /\ i[2] = 1
    /\ pos[1] # OwnRows(SeqState(0).pos, 1)


\* The collectives of n iterations, in the order of the script.
LoopOps == <<"bcast", "scatter_pos", "scatter_vel", "gather_pos", "gather_vel">>
ExpectedColl(n) ==
    [x \in 1 .. 5 * n |-> [op |-> LoopOps[((x - 1) % 5) + 1], root |-> 0, step |-> (x - 1) \div 5]]

\* A run whose parameters are valid and whose output directory is new.
ValidRun == N_parts >= 1 /\ N_steps >= 1 /\ save_every >= 1 /\ ~dir_exists /\ ~dir_made

AllDone ==
    \A r \in Ranks :
        /\ pc[r] = "done"
        /\ i[r] = N_steps
        /\ coll[r] = ExpectedColl(N_steps)
        /\ down[r] = <<>> /\ up[r] = <<>>

\* A rank that owns no particle takes part with empty slices.
EmptySlices ==
    \A r \in Ranks :
        (pc[r] \in {"scatvel", "compute"} \cup AfterCompute /\ N_this[r] = 0) => pos[r] = <<>>

\* C4: in a run with valid parameters and a new output directory, for every
\* N >= 1, W >= 1 and N_steps >= 1 (N < W included), every rank calls in
\* every step the same collectives in the same order with root 0, a rank
\* without particles with empty slices, and under fair scheduling every rank
\* completes exactly N_steps iterations and terminates, no message being left
\* in flight.
C4Theorem == ValidRun => ([]EmptySlices /\ <>[]AllDone)

\* A run with fewer particles than ranks has finished on all ranks.
C4Witness ==
    /\ N_parts = 1 /\ size = 3 /\ N_steps = 2
    /\ N_this[2] = 0
    /\ AllDone


\* C5: after the self-start, for every particle vel_full = v0 + a0*dt/2 and
\* pos_full = x0 + vel_full*dt, a0 being the acceleration at the initial
\* positions.
C5Claim ==
    pc[0] = "clock" =>
        \A x \in 1 .. 3 * N_parts :
            /\ vel_full[0][x] = vel_init[x] + (accels[0][x] * dt) \div 2
            /\ pos_full[0][x] = pos_init[x] + vel_full[0][x] * dt

\* What line 101 computes instead: the position is moved with the velocity
\* of the half-kick kicked once more by a full step.
C5SelfStartDrift ==
    pc[0] = "clock" =>
        \A x \in 1 .. 3 * N_parts :
            /\ vel_full[0][x] = vel_init[x] + (accels[0][x] * dt) \div 2
            /\ pos_full[0][x] = pos_init[x] + (vel_full[0][x] + accels[0][x] * dt) * dt

\* The accelerations of step k on all particles, from the tree of step k.
SeqAccel(k) == SeqState(k + 1).acc

\* rank 0 holds the full arrays of the last finished step
FullIntact == {"clock", "loop", "bcast", "scatpos", "scatvel", "compute", "done"}

\* C6: the velocity is kicked by dt/2 once, in the self-start, and every
\* iteration k kicks every particle once by dt with the acceleration from
\* the tree of iteration k and then drifts it by dt: after the self-start and
\* k iterations the arrays are those of the sequential leapfrog, the
\* velocities kicked for dt/2 + k*dt in all.
C6Theorem ==
    pos_init # None =>
        LET t == SeqTraj(i[0] + 1)
        IN  /\ pc[0] \in FullIntact =>
                  /\ vel_full[0] = t[i[0] + 1].vel
                  /\ pos_full[0] = t[i[0] + 1].pos
            /\ pc[0] = "save" =>
                  /\ vel_full[0] = t[i[0] + 2].vel
                  /\ pos_full[0] = t[i[0] + 2].pos
            /\ \A r \in Ranks : pc[r] \in AfterCompute =>
                  /\ accels[r] = OwnRows(t[i[r] + 2].acc, r)
                  /\ vel[r] = [x \in 1 .. 3 * N_this[r] |->
                                  OwnRows(t[i[r] + 1].vel, r)[x] + accels[r][x] * dt]
                  /\ pos[r] = [x \in 1 .. 3 * N_this[r] |->
                                  OwnRows(t[i[r] + 1].pos, r)[x] + vel[r][x] * dt]

\* Three iterations are done on two ranks and the particles have moved.
C6Witness ==
    /\ N_parts = 3 /\ size = 2 /\ N_steps = 3
    /\ pc[0] = "done" /\ i[0] = 3
    /\ vel_full[0] = SeqState(3).vel
    /\ vel_full[0] # SeqState(2).vel
    /\ SeqAccel(0) # SeqAccel(2)


\* C7: for N_steps >= 1 and save_every >= 1, save_results is called by
\* rank 0 only, in the order of the steps, exactly once for every finished
\* step j with j mod save_every = 0 or j = N_steps - 1 and for no other
\* step, with the full arrays of step j, the start time, j, N_steps and the
\* number of ranks.
C7Theorem ==
    (N_steps >= 1 /\ save_every >= 1) =>
        LET due == {j \in 0 .. i[0] - 1 : (j % save_every) = 0 \/ j = N_steps - 1}
            t == SeqTraj(i[0])
        IN  /\ Len(saved) = Cardinality(due)
            /\ \A x \in 1 .. Len(saved) :
                  /\ saved[x].i \in due
                  /\ \A y \in 1 .. Len(saved) : x < y => saved[x].i < saved[y].i
                  /\ saved[x].rank = 0
                  /\ saved[x].file = saved[x].i
                  /\ saved[x].N_steps = N_steps
                  /\ saved[x].size = size
                  /\ saved[x].t_start = t_start
                  /\ saved[x].pos = t[saved[x].i + 2].pos
                  /\ saved[x].vel = t[saved[x].i + 2].vel
            /\ pc[0] = "done" => i[0] = N_steps

\* Of three steps saved every second one, step 1 is skipped and step 2,
\* due twice over, is saved once.
C7Witness ==
    /\ N_steps = 3 /\ save_every = 2 /\ size = 2 /\ N_parts = 2
    /\ pc[0] = "done"
    /\ Len(saved) = 2
    /\ saved[1].i = 0 /\ saved[2].i = 2

InLoop == {"bcast", "scatpos", "scatvel", "compute", "gpos", "gpos_wait",
           "gvel", "gvel_wait", "save"}

\* C8: when the output directory exists at the start and clobber is not
\* set, the run comes to rest with every rank terminated, no rank having
\* executed an iteration or a collective of the loop and no rank left
\* waiting in a collective.
C8Claim ==
    (dir_exists /\ ~dir_made /\ ~clobber /\ ~ENABLED Next) =>
        \A r \in Ranks :
            /\ pc[r] \in {"crashed", "done"}
            /\ pc[r] \notin InLoop
            /\ coll[r] = <<>>

InvalidParams == N_parts < 1 \/ N_steps < 1 \/ dt <= 0 \/ save_every < 1

\* C9: with invalid run parameters every rank fails before the output
\* directory is created, before the initial conditions are drawn and before
\* any tree build or collective.
C9Claim ==
    InvalidParams =>
        /\ \A r \in Ranks : pc[r] \in {"start", "crashed"} /\ coll[r] = <<>>
        /\ ~dir_made
        /\ pos_init = None
        /\ saved = <<>>

NoUninit(arr) == \A x \in 1 .. Len(arr) : arr[x] # Uninit

\* C10: when rank 0 reaches the save of step j, both gathers of step j have
\* received the slice of every rank, and every snapshot handed to
\* save_results holds, with no unwritten entry, the positions and the
\* velocities of one and the same step.
C10Theorem ==
    /\ pc[0] = "save" =>
          /\ got = Ranks
          /\ InLog(0, "gather_pos", i[0]) /\ InLog(0, "gather_vel", i[0])
          /\ NoUninit(pos_full[0]) /\ NoUninit(vel_full[0])
          /\ \A q \in Ranks :
                /\ up[q] = <<>>
                /\ q # 0 => i[q] = i[0] + 1
                /\ OwnRows(pos_full[0], q) = pos[q]
                /\ OwnRows(vel_full[0], q) = vel[q]
    /\ \A x \in 1 .. Len(saved) :
          /\ Len(saved[x].pos) = 3 * N_parts /\ Len(saved[x].vel) = 3 * N_parts
          /\ NoUninit(saved[x].pos) /\ NoUninit(saved[x].vel)
          /\ LET s == SeqState(saved[x].i + 1)
             IN  saved[x].pos = s.pos /\ saved[x].vel = s.vel

\* Three ranks have gathered step 1 and rank 0 is about to save it.
C10Witness ==
    /\ size = 3 /\ N_parts = 3
    /\ pc[0] = "save" /\ i[0] = 1
    /\ Len(saved) = 1
    /\ saved[1].pos # pos_full[0]
    /\ \A q \in Ranks : pos[q] # <<>>

\* C11: when the output directory exists at the start and clobber is set,
\* the directory check does not fail: in a run with valid parameters rank 0
\* goes on to the initial conditions and the loop, and the run comes to rest
\* with every rank done as for a new directory.
C11Claim ==
    (dir_exists /\ ~dir_made /\ clobber /\ ~InvalidParams) =>
        /\ pc[0] # "crashed"
        /\ ~ENABLED Next => AllDone

\* The tree in use on every rank is the one rank 0 built in the running
\* iteration from the full positions it scatters in that iteration.
C12TreeOfStep ==
    \A r \in Ranks :
        /\ (r # 0 /\ pc[r] = "bcast") => tree[r] = NoTree
        /\ (pc[r] \in InLoop \ {"bcast"} \/ (r = 0 /\ pc[0] = "bcast")) =>
              /\ i[r] = i[0]
              /\ tree[r] = construct_tree(SeqState(i[0]).pos, masses)
        /\ (r = 0 /\ pc[0] \in {"bcast", "scatpos", "scatvel", "compute", "gpos"}) =>
              tree[0].pos = pos_full[0]
        /\ pc[r] = "compute" => pos[r] = OwnRows(tree[r].pos, r)
        /\ pc[r] \in AfterCompute =>
              accels[r] = compute_accel(tree[r], part_ids_per_process[r][r + 1])

\* A tree is built by rank 0 only, in the self-start and once at the head of
\* every iteration; the other ranks get theirs from the broadcast.
C12BuiltOnce ==
    /\ \A r \in Ranks : tree'[r] # tree[r] =>
          IF r = 0 THEN pc[0] \in {"selfstart", "loop"} ELSE pc[r] \in {"loop", "bcast"}
    /\ (pc[0] = "loop" /\ pc'[0] = "bcast") =>
          tree'[0] = construct_tree(pos_full[0], masses)
    /\ \A r \in Ranks \ {0} : (pc[r] = "bcast" /\ pc'[r] = "scatpos") =>
          tree'[r] = Head(down[r]).data

\* C12: in every iteration every rank computes its accelerations from the
\* tree rank 0 built in that iteration from the full position array it
\* scatters in that iteration, never from a tree of an earlier iteration, and
\* the tree is rebuilt once per iteration, by rank 0 only.
C12Theorem == [](C12TreeOfStep) /\ [][C12BuiltOnce]_vars

\* In step 1 a rank other than 0 computes with a tree that is not the one
\* of step 0.
C12Witness ==
    /\ size = 3 /\ N_parts = 3
    /\ pc[2] = "compute" /\ i[2] = 1
    /\ tree[2] = tree[0]
    /\ tree[2].pos # SeqState(0).pos

\* The rank that owns particle j.
Owner(j) == CHOOSE r \in Ranks : \E k \in 1 .. N_this[r] : part_ids_per_process[r][r + 1][k] = j

\* Row k of the slice of rank r is the particle part_ids_per_process[r][k]:
\* the displacement of rank r, in rows, is its first particle id.
C13Pairing ==
    \A r \in Ranks : Started(r) =>
        /\ \A k \in 1 .. N_this[r] :
              3 * part_ids_per_process[r][r + 1][k] = displacements[r][r + 1] + 3 * (k - 1)
        /\ displacements[r] = displacements[0] \/ ~Started(0)

\* The rows of rank q in a full array of rank 0, by the counts and
\* displacements rank 0 gives to Scatterv and Gatherv.
RootRows(full, q) == ScatterSlice(full, Times3(N_per_process[0]), displacements[0], q)

\* While a gather runs, the rows of the ranks whose slice is in hold that
\* slice and the rows of the others are still unwritten.
C13GatherRows ==
    /\ pc[0] = "gpos_wait" =>
          \A q \in Ranks :
              RootRows(pos_full[0], q) =
                  (IF q \in got THEN pos[q] ELSE empty(N_per_process[0][q + 1]))
    /\ pc[0] = "gvel_wait" =>
          \A q \in Ranks :
              RootRows(vel_full[0], q) =
                  (IF q \in got THEN vel[q] ELSE empty(N_per_process[0][q + 1]))

\* C13: after the gathers of step k, entry j of the full arrays is the
\* integrator output for entry j of the arrays scattered in step k and the
\* acceleration of particle j, computed by the one rank that owns j; a slice
\* is written to the rows of its owner only, and row k of a slice is the
\* particle whose id compute_accel is given for row k.
C13Theorem ==
    /\ C13Pairing
    /\ C13GatherRows
    /\ pc[0] = "save" =>
          LET s == SeqState(i[0])
          IN  \A j \in 0 .. N_parts - 1 :
                LET r == Owner(j)
                    k == CHOOSE k \in 1 .. N_this[r] : part_ids_per_process[r][r + 1][k] = j
                    a == compute_accel(tree[0], <<j>>)
                IN  /\ Cardinality({q \in Ranks : \E y \in 1 .. N_this[q] :
                                       part_ids_per_process[q][q + 1][y] = j}) = 1
                    /\ \A c \in 1 .. 3 :
                          LET x == 3 * j + c
                          IN  /\ accels[r][3 * (k - 1) + c] = a[c]
                              /\ vel[r][3 * (k - 1) + c] = s.vel[x] + a[c] * dt
                              /\ pos[r][3 * (k - 1) + c] = s.pos[x] + vel[r][3 * (k - 1) + c] * dt
                              /\ vel_full[0][x] = vel[r][3 * (k - 1) + c]
                              /\ pos_full[0][x] = pos[r][3 * (k - 1) + c]

\* Three ranks with one particle each have gathered step 1, and the
\* particles differ.
C13Witness ==
    /\ size = 3 /\ N_parts = 3
    /\ pc[0] = "save" /\ i[0] = 1
    /\ OwnRows(pos_full[0], 1) # OwnRows(pos_full[0], 2)
    /\ OwnRows(pos_full[0], 1) = pos[1]
    /\ Owner(2) = 2

\* C14: the full position and velocity arrays exist on rank 0 only: on
\* every other rank pos_full and vel_full are None at all times, and at every
\* step boundary rank 0 holds both arrays complete; within an iteration the
\* pos and vel buffers of a rank have exactly N_per_process[rank] rows; every
\* collective is called with root 0.
C14Theorem ==
    /\ \A r \in Ranks \ {0} : pos_full[r] = None /\ vel_full[r] = None
    /\ pc[0] \in FullIntact =>
          /\ Len(pos_full[0]) = 3 * N_parts /\ NoUninit(pos_full[0])
          /\ Len(vel_full[0]) = 3 * N_parts /\ NoUninit(vel_full[0])
    /\ \A r \in Ranks :
          /\ pc[r] \in ({"scatvel", "compute"} \cup AfterCompute) =>
                /\ Len(pos[r]) = 3 * N_per_process[r][r + 1]
                /\ Len(vel[r]) = 3 * N_per_process[r][r + 1]
          /\ pc[r] \in ({"compute"} \cup AfterCompute) =>
                NoUninit(pos[r]) /\ NoUninit(vel[r])
          /\ \A x \in 1 .. Len(coll[r]) : coll[r][x].root = 0

\* Between two steps of a run of three ranks, rank 0 holds the full arrays
\* and a rank with one particle has a buffer of one row.
C14Witness ==
    /\ size = 3 /\ N_parts = 2
    /\ pc[0] = "loop" /\ i[0] = 1
    /\ Len(pos_full[0]) = 6
    /\ pos_full[1] = None /\ pos_full[2] = None
    /\ Len(pos[1]) = 3 /\ Len(pos[2]) = 0

\* Every snapshot holds the arrays of the sequential run after the
\* self-start and saved.i + 1 iterations.
C15Snapshot ==
    LET t == SeqTraj(i[0])
    IN  \A x \in 1 .. Len(saved) :
          /\ saved[x].i \in 0 .. N_steps - 1
          /\ saved[x].file = saved[x].i
          /\ saved[x].pos = t[saved[x].i + 2].pos
          /\ saved[x].vel = t[saved[x].i + 2].vel

\* A snapshot is written only by rank 0 at the end of an iteration, when
\* every rank has computed i + 1 times and rank 0 has been through the five
\* collectives of i + 1 iterations.
C15Persist ==
    saved' # saved =>
        /\ pc[0] = "save"
        /\ saved' = Append(saved, [SaveCall(0) EXCEPT !.i = i[0], !.file = i[0]])
        /\ Len(coll[0]) = 5 * (i[0] + 1)
        /\ \A r \in Ranks : Computed(r, i[0])
        /\ pos_full[0] = SeqState(i[0] + 1).pos
        /\ vel_full[0] = SeqState(i[0] + 1).vel

\* A run of no step has ended on every rank, without a collective and
\* without a snapshot.
C15ZeroSteps ==
    /\ saved = <<>>
    /\ \A r \in Ranks :
          /\ pc[r] \in {"done", "crashed"}
          /\ i[r] = 0
          /\ coll[r] = <<>>
    /\ (N_parts >= 1 /\ ~dir_exists) => \A r \in Ranks : pc[r] = "done"

\* C15: the snapshot saved under loop index i holds the state after the
\* self-start and i + 1 iterations of kick and drift, so neither the initial
\* conditions nor the state right after the self-start is ever saved; a
\* snapshot is written only at the end of an iteration; with N_steps = 0
\* the run ends on every rank and saves nothing.
C15Theorem ==
    /\ []C15Snapshot
    /\ [][C15Persist]_vars
    /\ (N_steps = 0) => (<>[]C15ZeroSteps /\ [](saved = <<>>))

\* The first snapshot of a finished run of two steps is filed under 0 and
\* differs from the initial conditions and from the self-started arrays.
C15Witness ==
    /\ N_steps = 2 /\ save_every = 1 /\ size = 2 /\ N_parts = 3
    /\ pc[0] = "done" /\ pc[1] = "done"
    /\ Len(saved) = 2
    /\ saved[1].i = 0
    /\ saved[1].pos = SeqState(1).pos
    /\ saved[1].pos # SeqState(0).pos
    /\ saved[1].pos # pos_init
    /\ saved[2].pos # saved[1].pos

====
